---- MODULE Spec2Model ----
(***************************************************************************)
(* Model of the Heatmap React component (src/src/heatmap.tsx).             *)
(*                                                                         *)
(* The component is a function of its props, the wall clock (dayjs() with  *)
(* no argument reads the current instant) and one useMemo cell.  One       *)
(* render is one action: it computes the geometry (daysInYear,             *)
(* firstDayOffset, totalCols, monthStartCols) and hands one descriptor per *)
(* weekday label, month label and day cell either to the caller's callback *)
(* or to the built-in default component.                                   *)
(*                                                                         *)
(* Dates are local calendar days, held as the number of days since         *)
(* 1970-01-01 (the time of day never matters to the component).  The       *)
(* calendar arithmetic is that of the JavaScript Date object dayjs wraps.  *)
(* Styling props (cellSize, gap, containerGap, className, layout, style)   *)
(* are passed through to the output untouched and are left out.            *)
(***************************************************************************)
EXTENDS Integers, Sequences, FiniteSets

\* ------------------------------------------------------------------ bounds

YearMin == 2000

YearMax == 2027

\* Century years that are not leap years, next to the 28-year range that
\* holds all 14 calendars (7 weekdays of January 1st, leap or not).
CenturyYears == {1900, 2100}

Years == (YearMin..YearMax) \cup CenturyYears

WeekStartDays == {"sunday", "monday"}

\* The years of the runs that vary the callbacks or compare two renders: a
\* 54-column year for each convention, a leap year and a common year.
FewYears == {2000, 2012, 2024, 2025}

\* The instants at which a render may run: a leap day and a 31st.
Nows ==
  { [year |-> 2024, month |-> 1, date |-> 29],
    [year |-> 2025, month |-> 0, date |-> 31] }

\* ---------------------------------------------------------- optional values

Null == << >>

Some(v) == << v >>

Min(a, b) == IF a <= b THEN a ELSE b

\* ------------------------------------------------- JavaScript Date, in days

\* Day number of January 1st of year y (ECMAScript DayFromYear).
DayFromYear(y) ==
  365 * (y - 1970) + ((y - 1969) \div 4) - ((y - 1901) \div 100)
    + ((y - 1601) \div 400)

DaysInYearOf(y) == DayFromYear(y + 1) - DayFromYear(y)

\* The year whose days hold day number t (ECMAScript YearFromTime).
YearFromTime(t) ==
  CHOOSE y \in { 1970 + (t \div 366) + k : k \in -1..1 }
                 \cup { 1970 + (t \div 365) + k : k \in -1..1 } :
    DayFromYear(y) <= t /\ t < DayFromYear(y + 1)

\* Day within the year at which each month starts, and the year's end.
MonthStarts(daysInYear) ==
  LET L == IF daysInYear = 366 THEN 1 ELSE 0
  IN  << 0, 31, 59 + L, 90 + L, 120 + L, 151 + L, 181 + L, 212 + L,
         243 + L, 273 + L, 304 + L, 334 + L, 365 + L >>

\* The month (0..11) holding day dayWithinYear (ECMAScript MonthFromTime).
MonthFromDay(starts, dayWithinYear) ==
  CHOOSE m \in 0..11 : starts[m + 1] <= dayWithinYear /\ dayWithinYear < starts[m + 2]

\* 1970-01-01 was a Thursday; Sunday is 0 (ECMAScript WeekDay).
WeekDay(t) == (t + 4) % 7

\* new Date(y, m, d), m in 0..12: a date outside the month runs into the
\* neighbouring month (ECMAScript MakeDay).
MakeDay(y, m, d) == DayFromYear(y) + MonthStarts(DaysInYearOf(y))[m + 1] + d - 1

\* ----------------------------------------------------------------- dayjs

\* A Dayjs object: the wrapped Date d and the fields init() reads from it.
Dayjs(t) ==
  LET y      == YearFromTime(t)
      starts == MonthStarts(DaysInYearOf(y))
      dwy    == t - DayFromYear(y)
      M      == MonthFromDay(starts, dwy)
  IN  [ d |-> t, y |-> y, M |-> M, D |-> dwy - starts[M + 1] + 1, W |-> WeekDay(t) ]

\* dayjs(): the current instant.
dayjs_now(n) == Dayjs(MakeDay(n.year, n.month, n.date))

\* .daysInMonth() is endOf("month").$D: the date of new Date(y, M + 1, 0).
dayjs_daysInMonth(x) == Dayjs(MakeDay(x.y, x.M + 1, 0)).D

\* .year(y): dayjs moves to the 1st, sets the year, and goes back to the
\* original date clamped to the length of the month it arrived in.
dayjs_year(x, y) ==
  LET first == Dayjs(MakeDay(y, x.M, 1))
  IN  Dayjs(MakeDay(y, x.M, Min(x.D, dayjs_daysInMonth(first))))

\* Variant: Date.setMonth without the clamp, so the 31st runs into the next
\* month.
dayjs_monthNoClamp(x, m) == Dayjs(MakeDay(x.y, m, x.D))

\* .month(m): the same, for the month.
dayjs_month(x, m) ==
  LET first == Dayjs(MakeDay(x.y, m, 1))
  IN  Dayjs(MakeDay(x.y, m, Min(x.D, dayjs_daysInMonth(first))))

\* .startOf("year")
dayjs_startOfYear(x) == Dayjs(MakeDay(x.y, 0, 1))

\* a.diff(b, "day")
dayjs_diffDay(a, b) == a.d - b.d

\* .add(n, "day"): setDate(date + n)
dayjs_addDay(x, n) == Dayjs(MakeDay(x.y, x.M, x.D + n))

\* .day(): Sunday 0 .. Saturday 6
dayjs_day(x) == x.W

\* .isoWeekday(): Monday 1 .. Sunday 7
dayjs_isoWeekday(x) == IF dayjs_day(x) = 0 THEN 7 ELSE dayjs_day(x)

\* ----------------------------------------------- `${year}-01-01` and parse

DigitChars == << "0", "1", "2", "3", "4", "5", "6", "7", "8", "9" >>

Digits == { DigitChars[d + 1] : d \in 0..9 }

\* String(n) for a non-negative integer, as a sequence of characters.
RECURSIVE NumberToString(_)
NumberToString(n) ==
  IF n < 10 THEN << DigitChars[n + 1] >>
  ELSE Append(NumberToString(n \div 10), DigitChars[(n % 10) + 1])

DigitValue(c) == CHOOSE d \in 0..9 : DigitChars[d + 1] = c

\* The number written by the digits s[from..to].
RECURSIVE StringToNumber(_, _, _)
StringToNumber(s, from, to) ==
  IF to < from THEN 0
  ELSE 10 * StringToNumber(s, from, to - 1) + DigitValue(s[to])

\* The template literal `${year}-01-01`, as a sequence of characters.
YearStartString(year) == NumberToString(year) \o << "-", "0", "1", "-", "0", "1" >>

\* What dayjs gives for a string it cannot read.
InvalidDate == [ d |-> 0, y |-> 0, M |-> 0, D |-> 0, W |-> 0 ]

\* dayjs(string): YYYY-MM-DD with a four-digit year is read as a local date.
dayjs_parse(s) ==
  IF /\ Len(s) = 10
     /\ \A i \in {1, 2, 3, 4, 6, 7, 9, 10} : s[i] \in Digits
     /\ s[5] = "-" /\ s[8] = "-"
  THEN Dayjs(MakeDay(StringToNumber(s, 1, 4), StringToNumber(s, 6, 7) - 1,
                     StringToNumber(s, 9, 10)))
  ELSE InvalidDate

\* ------------------------------------------------------- helper functions

\* dayjs().year(year).startOf("year") to dayjs().year(year + 1).startOf("year")
getDaysInYear(year, now) ==
  LET startOfYear     == dayjs_startOfYear(dayjs_year(dayjs_now(now), year))
      startOfNextYear == dayjs_startOfYear(dayjs_year(dayjs_now(now), year + 1))
  IN  dayjs_diffDay(startOfNextYear, startOfYear)

\* dayjs().year(year).month(month).daysInMonth()
getDaysInMonth(year, month, now) ==
  dayjs_daysInMonth(dayjs_month(dayjs_year(dayjs_now(now), year), month))

\* dayjs(`${year}-01-01`).add(dayOfYear - 1, "day")
getDateFromDayOfYear(year, dayOfYear) ==
  dayjs_addDay(dayjs_parse(YearStartString(year)), dayOfYear - 1)

\* Variant: the column is taken from the day alone, without the offset of
\* January 1st.
getStartColumnForDayNoOffset(dayOfYear, firstDayOffset) ==
  LET dayIndex == dayOfYear - 1
      colIndex == dayIndex \div 7
  IN  colIndex + 1

getStartColumnForDay(dayOfYear, firstDayOffset) ==
  LET dayIndex  == dayOfYear - 1
      gridIndex == dayIndex + firstDayOffset
      colIndex  == gridIndex \div 7
  IN  colIndex + 1

\* -------------------------------------------------------------- constants

MONTH_ABBREVIATIONS ==
  << "Jan", "Feb", "Mar", "Apr", "May", "Jun",
     "Jul", "Aug", "Sep", "Oct", "Nov", "Dec" >>

WEEKDAYS_MON_START == << "Mon", "Tue", "Wed", "Thu", "Fri", "Sat", "Sun" >>

WEEKDAYS_SUN_START == << "Sun", "Mon", "Tue", "Wed", "Thu", "Fri", "Sat" >>

\* ------------------------------------------------------------------ props

\* A callback prop is TRUE when the caller supplies it.
PropsOf(Y, CB) ==
  [ year : Y, weekStartDay : WeekStartDays,
    renderDay : CB, renderMonth : CB, renderWeekday : CB ]

\* The defaults of the props destructuring.
DefaultProps ==
  [ year |-> 2025, weekStartDay |-> "sunday",
    renderDay |-> FALSE, renderMonth |-> FALSE, renderWeekday |-> FALSE ]

\* ----------------------------------------------------------------- config

\* Variant: the Monday-start branch returns the Sunday-start labels.
MakeConfigSameLabels(weekStartDay) ==
  IF weekStartDay = "sunday"
  THEN [ getWeekday |-> "day", labels |-> WEEKDAYS_SUN_START ]
  ELSE [ getWeekday |-> "isoWeekday - 1", labels |-> WEEKDAYS_SUN_START ]

\* The factory handed to useMemo.
MakeConfig(weekStartDay) ==
  IF weekStartDay = "sunday"
  THEN [ getWeekday |-> "day", labels |-> WEEKDAYS_SUN_START ]
  ELSE [ getWeekday |-> "isoWeekday - 1", labels |-> WEEKDAYS_MON_START ]

\* Variant: the Monday-start branch without the "- 1".
getWeekdayIso(config, date) ==
  IF config.getWeekday = "day" THEN dayjs_day(date) ELSE dayjs_isoWeekday(date)

\* config.getWeekday(date)
getWeekday(config, date) ==
  IF config.getWeekday = "day" THEN dayjs_day(date) ELSE dayjs_isoWeekday(date) - 1

\* useMemo(factory, [weekStartDay]): the cell is empty before the first render
\* and is recomputed when the dependency changed.
UseMemoConfig(cell, weekStartDay) ==
  IF Len(cell) = 1 /\ cell[1].deps = << weekStartDay >>
  THEN cell
  ELSE << [ deps |-> << weekStartDay >>, value |-> MakeConfig(weekStartDay) ] >>

\* ------------------------------------------------------- core computation

Ceil7(n) == -((-n) \div 7)

\* Variant: Math.floor in place of Math.ceil.
TotalColsFloor(daysInYear, firstDayOffset) == (daysInYear + firstDayOffset) \div 7

\* Variant: Math.floor(...) + 1 in place of Math.ceil.
TotalColsFloorPlusOne(daysInYear, firstDayOffset) ==
  ((daysInYear + firstDayOffset) \div 7) + 1

\* Math.ceil((daysInYear + firstDayOffset) / 7)
TotalCols(daysInYear, firstDayOffset) == Ceil7(daysInYear + firstDayOffset)

DaysInMonthArray(year, now) == [ i \in 1..12 |-> getDaysInMonth(year, i - 1, now) ]

\* The loop that fills monthStartCols; cumulativeDays before month i (0-indexed).
RECURSIVE CumulativeDays(_, _)
CumulativeDays(daysInMonthArray, i) ==
  IF i = 0 THEN 0
  ELSE CumulativeDays(daysInMonthArray, i - 1) + daysInMonthArray[i]

\* Variant: dayOfYear = cumulativeDays, the last day of the month before.
MonthStartColsOfLastDay(daysInMonthArray, firstDayOffset) ==
  [ i \in 1..12 |->
      getStartColumnForDay(CumulativeDays(daysInMonthArray, i - 1), firstDayOffset) ]

MonthStartCols(daysInMonthArray, firstDayOffset) ==
  [ i \in 1..12 |->
      getStartColumnForDay(CumulativeDays(daysInMonthArray, i - 1) + 1,
                           firstDayOffset) ]

CoreCalc(year, config, now) ==
  LET daysInYear       == getDaysInYear(year, now)
      firstDayOfYear   == dayjs_parse(YearStartString(year))
      firstDayOffset   == getWeekday(config, firstDayOfYear)
      totalCols        == TotalCols(daysInYear, firstDayOffset)
      daysInMonthArray == DaysInMonthArray(year, now)
  IN  [ daysInYear       |-> daysInYear,
        firstDayOffset   |-> firstDayOffset,
        totalCols        |-> totalCols,
        daysInMonthArray |-> daysInMonthArray,
        monthStartCols   |-> MonthStartCols(daysInMonthArray, firstDayOffset),
        endCol           |-> totalCols + 1 ]

\* ------------------------------------------------------------- rendering

\* Variant: the branches of the conditional swapped.
RenderWithSwapped(callback, callbackName, defaultName, elementProps) ==
  [ renderer |-> IF callback THEN defaultName ELSE callbackName,
    props    |-> elementProps ]

\* callback ? callback(props) : <Default {...props} />
RenderWith(callback, callbackName, defaultName, elementProps) ==
  [ renderer |-> IF callback THEN callbackName ELSE defaultName,
    props    |-> elementProps ]

WeekdayLabels(p, config) ==
  [ i \in 1..Len(config.labels) |->
      RenderWith(p.renderWeekday, "renderWeekday", "DefaultWeekdayLabel",
                 [ index |-> i - 1, label |-> config.labels[i] ]) ]

\* Variant: December ends at totalCols instead of totalCols + 1.
MonthSpanToLastCol(c, index) ==
  LET startCol     == c.monthStartCols[index + 1]
      nextStartCol == IF index = 11 THEN c.totalCols ELSE c.monthStartCols[index + 2]
  IN  nextStartCol - startCol

\* nextStartCol - startCol, with endCol after December.
MonthSpan(c, index) ==
  LET startCol     == c.monthStartCols[index + 1]
      nextStartCol == IF index = 11 THEN c.endCol ELSE c.monthStartCols[index + 2]
  IN  nextStartCol - startCol

MonthLabels(p, c) ==
  [ i \in 1..12 |->
      RenderWith(p.renderMonth, "renderMonth", "DefaultMonthLabel",
                 [ index    |-> i - 1,
                   label    |-> MONTH_ABBREVIATIONS[i],
                   startCol |-> c.monthStartCols[i],
                   span     |-> MonthSpan(c, i - 1) ]) ]

CellDayOfYear(colIdx, rowIdx, firstDayOffset) == colIdx * 7 + rowIdx + 1 - firstDayOffset

\* Variant: "< 0" in place of "<= 0".
CellIsEmptyFromZero(dayOfYear, daysInYear) == dayOfYear < 0 \/ dayOfYear > daysInYear

CellIsEmpty(dayOfYear, daysInYear) == dayOfYear <= 0 \/ dayOfYear > daysInYear

DayCellProps(year, c, colIdx, rowIdx) ==
  LET dayOfYear == CellDayOfYear(colIdx, rowIdx, c.firstDayOffset)
      isEmpty   == CellIsEmpty(dayOfYear, c.daysInYear)
  IN  [ date      |-> IF isEmpty THEN Null
                      ELSE Some(getDateFromDayOfYear(year, dayOfYear)),
        dayOfYear |-> IF isEmpty THEN Null ELSE Some(dayOfYear),
        colIndex  |-> colIdx,
        rowIndex  |-> rowIdx,
        isEmpty   |-> isEmpty ]

\* The outer map over the columns and the inner map over the 7 rows.
DayCells(p, c) ==
  [ i \in 1..(c.totalCols * 7) |->
      RenderWith(p.renderDay, "renderDay", "DefaultDayCell",
                 DayCellProps(p.year, c, (i - 1) \div 7, (i - 1) % 7)) ]

\* ------------------------------------------------------------------ state

VARIABLES
  mounted,        \* whether the component instance exists
  props,          \* the props of the last render
  now,            \* the instant of the last render
  memo,           \* the useMemo cell: << >> or << [deps, value] >>
  calc,           \* the locals of the last render's core computation
  weekdayLabels,  \* the weekday label descriptors, in call order
  monthLabels,    \* the month label descriptors, in call order
  dayCells,       \* the day cell descriptors, in call order
  pinned          \* history: the props and output of one earlier render

vars ==
  << mounted, props, now, memo, calc, weekdayLabels, monthLabels, dayCells, pinned >>

NoCalc ==
  [ daysInYear |-> 0, firstDayOffset |-> 0, totalCols |-> 0,
    daysInMonthArray |-> << >>, monthStartCols |-> << >>, endCol |-> 0 ]

Init ==
  /\ mounted = FALSE
  /\ props = DefaultProps
  /\ now \in Nows
  /\ memo = << >>
  /\ calc = NoCalc
  /\ weekdayLabels = << >>
  /\ monthLabels = << >>
  /\ dayCells = << >>
  /\ pinned = << >>

\* Heatmap: one render with props p at instant n.  The statements of the
\* function body in order: useMemo, the core computation, then the three
\* maps of the returned tree.
Heatmap(p, n) ==
  /\ props' = p
  /\ now' = n
  /\ memo' = UseMemoConfig(memo, p.weekStartDay)
  /\ calc' = CoreCalc(p.year, memo'[1].value, n)
  /\ weekdayLabels' = WeekdayLabels(p, memo'[1].value)
  /\ monthLabels' = MonthLabels(p, calc')
  /\ dayCells' = DayCells(p, calc')

\* The first render of a new instance, with years from Y and callbacks from CB.
Mount(Y, CB) ==
  /\ ~mounted
  /\ mounted' = TRUE
  /\ \E p \in PropsOf(Y, CB) : Heatmap(p, now)
  /\ UNCHANGED pinned

\* The parent passes another year.
ChangeYear(Y) ==
  /\ mounted
  /\ \E y \in Y \ {props.year} : Heatmap([props EXCEPT !.year = y], now)
  /\ UNCHANGED << mounted, pinned >>

\* The parent passes the other week-start convention.
ChangeWeekStartDay ==
  /\ mounted
  /\ \E w \in WeekStartDays \ {props.weekStartDay} :
       Heatmap([props EXCEPT !.weekStartDay = w], now)
  /\ UNCHANGED << mounted, pinned >>

\* The parent supplies or withdraws rendering callbacks.
ChangeCallbacks ==
  /\ mounted
  /\ \E d \in BOOLEAN, m \in BOOLEAN, w \in BOOLEAN :
       /\ << d, m, w >> # << props.renderDay, props.renderMonth, props.renderWeekday >>
       /\ Heatmap([props EXCEPT !.renderDay = d, !.renderMonth = m,
                               !.renderWeekday = w], now)
  /\ UNCHANGED << mounted, pinned >>

\* Time has passed and the same props are rendered again.
Rerender ==
  /\ mounted
  /\ \E n \in Nows \ {now} : Heatmap(props, n)
  /\ UNCHANGED << mounted, pinned >>

\* The instance goes away, and its useMemo cell and output with it.
Unmount ==
  /\ mounted
  /\ mounted' = FALSE
  /\ props' = DefaultProps
  /\ memo' = << >>
  /\ calc' = NoCalc
  /\ weekdayLabels' = << >>
  /\ monthLabels' = << >>
  /\ dayCells' = << >>
  /\ UNCHANGED << now, pinned >>

\* Time passes while no instance exists.
Tick ==
  /\ ~mounted
  /\ \E n \in Nows \ {now} : now' = n
  /\ UNCHANGED << mounted, props, memo, calc, weekdayLabels, monthLabels,
                  dayCells, pinned >>

\* History: remember the props, the instant and the output of the last render.
Pin ==
  /\ mounted
  /\ pinned = << >>
  /\ pinned' = << [ props |-> props, now |-> now, weekdays |-> weekdayLabels,
                    months |-> monthLabels, days |-> dayCells ] >>
  /\ UNCHANGED << mounted, props, now, memo, calc, weekdayLabels, monthLabels,
                  dayCells >>

\* Every year of the range under both conventions, default renderers.
Next ==
  \/ Mount(Years, {FALSE})
  \/ ChangeYear(Years)
  \/ ChangeWeekStartDay
  \/ Rerender
  \/ Unmount
  \/ Tick

Spec == Init /\ [][Next]_vars

\* A few years with every combination of callbacks.
NextCallbacks ==
  \/ Mount(FewYears, BOOLEAN)
  \/ ChangeYear(FewYears)
  \/ ChangeWeekStartDay
  \/ ChangeCallbacks
  \/ Rerender
  \/ Unmount
  \/ Tick

SpecCallbacks == Init /\ [][NextCallbacks]_vars

\* A few years, with one earlier render remembered.
NextTwice ==
  \/ Mount(FewYears, {FALSE})
  \/ ChangeYear(FewYears)
  \/ ChangeWeekStartDay
  \/ Rerender
  \/ Unmount
  \/ Tick
  \/ Pin

SpecTwice == Init /\ [][NextTwice]_vars

\* ======================================================================
\* Properties
\* ======================================================================

\* The indices of the day cells that are not placeholders.
RealCells == { i \in DOMAIN dayCells : ~dayCells[i].props.isEmpty }

\* The day cells of column col (0-indexed).
CellsOfColumn(col) == { i \in DOMAIN dayCells : dayCells[i].props.colIndex = col }

\* The columns holding at least one day of month m (0-indexed).
ColumnsOfMonth(m) ==
  { dayCells[i].props.colIndex : i \in { j \in RealCells : dayCells[j].props.date[1].M = m } }

\* The column holding the first day of month m.
ColumnOfFirstDay(m) ==
  { dayCells[i].props.colIndex :
      i \in { j \in RealCells : /\ dayCells[j].props.date[1].M = m
                                /\ dayCells[j].props.date[1].D = 1 } }

RECURSIVE SumOfSpans(_)
SumOfSpans(n) == IF n = 0 THEN 0 ELSE SumOfSpans(n - 1) + monthLabels[n].props.span

\* C1: every day 1..daysInYear sits in exactly one cell of the grid of
\* totalCols columns and 7 rows, each grid position is used once, and a cell
\* whose dayOfYear = col*7 + row + 1 - firstDayOffset is outside 1..daysInYear
\* is an empty placeholder.
C1_DayGridIsBijection ==
  mounted =>
    /\ \A i \in DOMAIN dayCells :
         /\ dayCells[i].props.colIndex \in 0..(calc.totalCols - 1)
         /\ dayCells[i].props.rowIndex \in 0..6
         /\ (dayCells[i].props.colIndex * 7 + dayCells[i].props.rowIndex + 1
               - calc.firstDayOffset) \notin 1..calc.daysInYear
              => dayCells[i].props.isEmpty
    /\ Cardinality({ << dayCells[i].props.colIndex, dayCells[i].props.rowIndex >> :
                       i \in DOMAIN dayCells }) = calc.totalCols * 7
    /\ Len(dayCells) = calc.totalCols * 7
    \* no day is missing, and no day appears twice
    /\ { dayCells[i].props.dayOfYear[1] : i \in RealCells } = 1..calc.daysInYear
    /\ Cardinality(RealCells) = calc.daysInYear

\* A leap year whose January 1st sits in the last row: the 54-column grid.
C1_Witness ==
  /\ mounted
  /\ calc.daysInYear = 366
  /\ calc.firstDayOffset = 6
  /\ Len(dayCells) = 54 * 7

\* C2: a cell whose computed dayOfYear is <= 0 or > daysInYear has isEmpty
\* true and date and dayOfYear null; any other cell has isEmpty false, the
\* computed dayOfYear and a date; colIndex and rowIndex are the cell's
\* 0-indexed column and row.
C2_PlaceholderDescriptors ==
  mounted =>
    \A i \in DOMAIN dayCells :
      LET cell     == dayCells[i].props
          col      == (i - 1) \div 7
          row      == (i - 1) % 7
          computed == col * 7 + row + 1 - calc.firstDayOffset
      IN  /\ cell.colIndex = col
          /\ cell.rowIndex = row
          /\ IF computed <= 0 \/ computed > calc.daysInYear
             THEN cell.isEmpty /\ cell.date = Null /\ cell.dayOfYear = Null
             ELSE /\ ~cell.isEmpty
                  /\ cell.dayOfYear = Some(computed)
                  /\ computed \in 1..calc.daysInYear
                  /\ cell.date # Null

\* A grid with placeholders before January 1st and after December 31st.
C2_Witness ==
  /\ mounted
  /\ dayCells[1].props.isEmpty
  /\ dayCells[Len(dayCells)].props.isEmpty
  /\ ~dayCells[8].props.isEmpty

\* C3: the 12 month label spans tile columns 1..totalCols: the first label
\* starts at column 1, each label starts where the one before it ends,
\* December ends at column totalCols, every span is at least 1 and the spans
\* sum to totalCols.
C3_MonthSpansTile ==
  mounted =>
    /\ Len(monthLabels) = 12
    /\ monthLabels[1].props.startCol = 1
    /\ \A i \in 1..11 :
         monthLabels[i + 1].props.startCol =
           monthLabels[i].props.startCol + monthLabels[i].props.span
    /\ monthLabels[12].props.startCol + monthLabels[12].props.span = calc.totalCols + 1
    /\ \A i \in 1..12 : monthLabels[i].props.span >= 1
    /\ SumOfSpans(12) = calc.totalCols

\* December is the month the virtual end column decides; here it spans 6
\* columns of a 54-column grid.
C3_Witness ==
  /\ mounted
  /\ calc.totalCols = 54
  /\ monthLabels[12].props.span = 6

\* C4 as stated: the span of month m is the number of grid columns holding
\* at least one day of month m.
C4_SpanIsColumnsOccupied ==
  mounted =>
    \A m \in 0..11 :
      monthLabels[m + 1].props.span = Cardinality(ColumnsOfMonth(m))

\* C4 amended: the span of month m is the number of grid columns holding at
\* least one day of month m, not counting the column that holds the first
\* day of the next month.
C4_SpanIsColumnsUpToNextMonth ==
  mounted =>
    \A m \in 0..11 :
      monthLabels[m + 1].props.span =
        Cardinality(ColumnsOfMonth(m) \ (IF m = 11 THEN {} ELSE ColumnOfFirstDay(m + 1)))

\* January shares its last column with February: 5 columns occupied, span 4.
C4_Witness ==
  /\ mounted
  /\ Cardinality(ColumnsOfMonth(0)) = 5
  /\ monthLabels[1].props.span = 4
  /\ ColumnOfFirstDay(1) \subseteq ColumnsOfMonth(0)

\* C5: firstDayOffset is the position of January 1st's weekday under the
\* convention (Sunday-start: Sunday 0 .. Saturday 6; Monday-start: Monday 0
\* .. Sunday 6), so it is in 0..6; totalCols is ceil((daysInYear +
\* firstDayOffset) / 7); 2024 with "sunday" gives 366, 1, 53 and 2025 with
\* "monday" gives 365, 2, 53.
C5_OffsetAndTotalCols ==
  mounted =>
    LET jan1 == Dayjs(MakeDay(props.year, 0, 1)).W
    IN  /\ calc.firstDayOffset \in 0..6
        /\ props.weekStartDay = "sunday" => calc.firstDayOffset = jan1
        /\ props.weekStartDay = "monday" => calc.firstDayOffset = (jan1 + 6) % 7
        /\ 7 * (calc.totalCols - 1) < calc.daysInYear + calc.firstDayOffset
        /\ calc.daysInYear + calc.firstDayOffset <= 7 * calc.totalCols
        /\ (props.year = 2024 /\ props.weekStartDay = "sunday")
             => /\ calc.daysInYear = 366
                /\ calc.firstDayOffset = 1
                /\ calc.totalCols = 53
        /\ (props.year = 2025 /\ props.weekStartDay = "monday")
             => /\ calc.daysInYear = 365
                /\ calc.firstDayOffset = 2
                /\ calc.totalCols = 53

\* The second scenario of the claim has been rendered.
C5_Witness ==
  /\ mounted
  /\ props.year = 2025
  /\ props.weekStartDay = "monday"
  /\ calc.firstDayOffset = 2

\* C6: a render with the props of an earlier render produces the descriptor
\* sequences of that render, whatever the instant of either render and
\* whatever was rendered, mounted or unmounted in between.
C6_SamePropsSameOutput ==
  (mounted /\ Len(pinned) = 1 /\ pinned[1].props = props) =>
    /\ pinned[1].weekdays = weekdayLabels
    /\ pinned[1].months = monthLabels
    /\ pinned[1].days = dayCells

\* The props of the remembered render are rendered again at another instant,
\* by an instance whose useMemo cell is in use.
C6_Witness ==
  /\ mounted
  /\ Len(pinned) = 1
  /\ pinned[1].props = props
  /\ pinned[1].now # now
  /\ props.weekStartDay = "monday"
  /\ Len(dayCells) > 0

\* C7: one render makes 7 weekday calls with index 0..6 in order, 12 month
\* calls with index 0..11 in order and totalCols * 7 day calls in
\* column-major order; each call goes to the callback when it is supplied
\* and to the built-in default when it is not.
C7_OneCallPerElement ==
  mounted =>
    /\ Len(weekdayLabels) = 7
    /\ \A i \in 1..7 :
         /\ weekdayLabels[i].props.index = i - 1
         /\ weekdayLabels[i].renderer =
              (IF props.renderWeekday THEN "renderWeekday" ELSE "DefaultWeekdayLabel")
    /\ Len(monthLabels) = 12
    /\ \A i \in 1..12 :
         /\ monthLabels[i].props.index = i - 1
         /\ monthLabels[i].renderer =
              (IF props.renderMonth THEN "renderMonth" ELSE "DefaultMonthLabel")
    /\ Len(dayCells) = calc.totalCols * 7
    /\ \A i \in DOMAIN dayCells :
         /\ dayCells[i].props.colIndex = (i - 1) \div 7
         /\ dayCells[i].props.rowIndex = (i - 1) % 7
         /\ dayCells[i].renderer =
              (IF props.renderDay THEN "renderDay" ELSE "DefaultDayCell")

\* A render with one callback supplied and the two others absent.
C7_Witness ==
  /\ mounted
  /\ props.renderDay /\ ~props.renderMonth /\ ~props.renderWeekday
  /\ dayCells[1].renderer = "renderDay"
  /\ monthLabels[1].renderer = "DefaultMonthLabel"
  /\ Len(dayCells) = 54 * 7

\* C8: the placeholders of column 0 are rows 0..firstDayOffset-1, those of
\* the last column are its trailing totalCols*7 - daysInYear - firstDayOffset
\* rows (fewer than 7), no other column has a placeholder, every column has
\* a real day, and totalCols is 53 or 54.
C8_PlaceholdersOnlyAtTheEnds ==
  mounted =>
    LET last     == calc.totalCols - 1
        trailing == calc.totalCols * 7 - calc.daysInYear - calc.firstDayOffset
        EmptyRows(col) ==
          { dayCells[i].props.rowIndex : i \in CellsOfColumn(col) \ RealCells }
    IN  /\ calc.totalCols \in {53, 54}
        /\ trailing \in 0..6
        /\ \A col \in 0..last :
             /\ CellsOfColumn(col) \cap RealCells # {}
             /\ Cardinality(CellsOfColumn(col)) = 7
             /\ EmptyRows(col) =
                  (IF col = 0 THEN 0..(calc.firstDayOffset - 1) ELSE {})
                    \cup (IF col = last THEN (7 - trailing)..6 ELSE {})

\* The last day of the year fills the last row of the last column.
C8_Witness ==
  /\ mounted
  /\ calc.firstDayOffset = 6
  /\ calc.daysInYear = 365
  /\ calc.totalCols = 53
  /\ ~dayCells[Len(dayCells)].props.isEmpty

\* C9: the weekday of the date of every real cell in row r is the weekday
\* the label at index r names.
C9_RowLabelNamesWeekday ==
  mounted =>
    \A i \in RealCells :
      weekdayLabels[dayCells[i].props.rowIndex + 1].props.label =
        WEEKDAYS_SUN_START[dayCells[i].props.date[1].W + 1]

\* A Monday-start grid whose year starts on a Sunday (row 6, label "Sun").
C9_Witness ==
  /\ mounted
  /\ props.weekStartDay = "monday"
  /\ calc.firstDayOffset = 6
  /\ weekdayLabels[7].props.label = "Sun"
  /\ dayCells[7].props.dayOfYear = Some(1)

\* C10: the startCol of the label of month m is 1 plus the colIndex of the
\* cell holding the first day of month m, and the cell holding day D has
\* colIndex getStartColumnForDay(D, firstDayOffset) - 1.
C10_LabelsLineUpWithCells ==
  mounted =>
    /\ \A m \in 0..11 :
         ColumnOfFirstDay(m) = { monthLabels[m + 1].props.startCol - 1 }
    /\ \A i \in RealCells :
         dayCells[i].props.colIndex =
           getStartColumnForDay(dayCells[i].props.dayOfYear[1], calc.firstDayOffset) - 1

\* March 1st of a leap year sits in another column than in a common year
\* with the same firstDayOffset would put it.
C10_Witness ==
  /\ mounted
  /\ calc.daysInYear = 366
  /\ calc.firstDayOffset = 5
  /\ monthLabels[3].props.startCol = 10
  /\ ColumnOfFirstDay(2) = {9}

====
